---- MODULE Spec2Model ----
(***************************************************************************)
(* A model of lettermixer.py: a fixed-length sequence of lowercase letters *)
(* and separators is evolved generation by generation; maximal letter runs *)
(* that are dictionary words are detected, frozen together with their      *)
(* adjacent separators, and every other cell is mutated under spacing      *)
(* constraints until every run is a word or the user interrupts.           *)
(*                                                                         *)
(* Python sequences are 0-indexed; a sequence sq of the model holds the    *)
(* Python element sq[k] at sq[k+1], and At(sq, k) reads it.  Spans are the *)
(* half-open 0-based (start, end) pairs of the source.                     *)
(***************************************************************************)
EXTENDS Integers, Sequences, FiniteSets, TLC

VARIABLES
  dict,        \* args.dict: the word list file, or NoFile when it does not exist
  arg_n,       \* args.n
  min_block,   \* args.min_block
  wordset,     \* main's wordset
  s,           \* main's s, the current generation
  n,           \* main's n = len(s)
  frozen,      \* main's frozen (the list freeze_flags_with_adjacent_spaces fills in place)
  word_id,     \* main's word_id (None is -1)
  matches,     \* main's matches
  found,       \* the list matches of find_word_matches before its sort (lines 80-87)
  pc,          \* the position of main
  wid,         \* the loop counter of freeze_flags_with_adjacent_spaces
  i,           \* the loop counter of mutate_once
  chars,       \* the local list chars of build_initial_string / mutate_once
  frame,       \* the frame printed by render_colored in this tick, <<>> before it
  exit_code,   \* the exit status of the process, -1 while it runs
  s0,          \* history: the sequence build_initial_string returned
  gen,         \* history: the last sequence assigned to s as a whole generation
  rendered,    \* history: the sequence printed by this tick's frame
  hist,        \* history: every match selected in some generation so far
  fallbacks,   \* history: TRUE once mutate_once took the chosen-is-None branch
  renders      \* history: how many times line 322 printed a frame in this tick

vars == <<dict, arg_n, min_block, wordset, s, n, frozen, word_id, matches, found,
          pc, wid, i, chars, frame, exit_code, s0, gen, rendered, hist, fallbacks,
          renders>>

(***************************************************************************)
(* Bounds of the model.                                                    *)
(***************************************************************************)
MaxN == 3          \* args.n ranges over 0..MaxN in the runs of the whole program
MaxMinBlock == 3   \* args.min_block ranges over 0..MaxMinBlock
MaxLen == 5        \* the longest input of build_initial_string and of the detection functions
MaxMutLen == 4     \* the longest input of mutate_once taken with arbitrary lock flags
MaxCands == 3      \* the longest candidate list given to the selection on its own

(***************************************************************************)
(* Configuration and defaults.                                             *)
(***************************************************************************)
\* The source's alphabet is a..z; the model keeps its first two letters.
LETTER_ALPHABET == <<"a", "b">>
SPACE_CHAR == " "
MaxAttempts == 40
None == -1
NoFile == <<"FileNotFoundError">>

Letters == {LETTER_ALPHABET[k] : k \in 1..Len(LETTER_ALPHABET)}
Cells == Letters \cup {SPACE_CHAR}

At(sq, k) == sq[k + 1]
Slice(sq, a, b) == SubSeq(sq, a + 1, b)
Min(a, b) == IF a < b THEN a ELSE b

RECURSIVE SeqsOfLen(_, _)
SeqsOfLen(S, k) ==
  IF k = 0 THEN {<<>>}
  ELSE {Append(q, c) : q \in SeqsOfLen(S, k - 1), c \in S}

SeqsUpTo(S, k) == UNION {SeqsOfLen(S, j) : j \in 0..k}

(***************************************************************************)
(* load_wordset: a word list file is a sequence of lines; a line is a      *)
(* sequence of characters, lowercase or uppercase letters or others.       *)
(***************************************************************************)
UpperOf == [c \in Letters |-> IF c = "a" THEN "A" ELSE "B"]
UpperLetters == {UpperOf[c] : c \in Letters}
LowerChar(c) == IF c \in UpperLetters THEN CHOOSE l \in Letters : UpperOf[l] = c ELSE c

\* re.compile(r'^[a-zA-Z]+$').fullmatch(w)
PatFullmatch(w) == Len(w) >= 1 /\ \A k \in 1..Len(w) : w[k] \in Letters \cup UpperLetters
\* w.isupper(), for a w that is all letters
IsUpper(w) == Len(w) >= 1 /\ \A k \in 1..Len(w) : w[k] \in UpperLetters
Lower(w) == [k \in 1..Len(w) |-> LowerChar(w[k])]

RECURSIVE load_lines(_, _)
load_lines(lines, mb) ==
  IF lines = <<>> THEN {}
  ELSE LET w == Head(lines)
           rest == load_lines(Tail(lines), mb)
       IN IF w = <<>> THEN rest
          ELSE IF ~PatFullmatch(w) THEN rest
          ELSE IF IsUpper(w) THEN rest
          ELSE IF Len(Lower(w)) >= mb THEN rest \cup {Lower(w)} ELSE rest

\* the word lists of the model
DictSmall == << <<"a">>, <<"A", "b">>, <<>>, <<"b", "-", "a">>, <<"B", "A">>,
                <<"a", "b", "a">>, <<"b", "a">> >>
DictPair == << <<"a", "a">>, <<"b">>, <<"b", "b", "b">>, <<"a", "a", "a", "a">> >>
DictEmpty == << <<>>, <<"A">> >>
DictFiles == {DictSmall, DictPair, DictEmpty}

(***************************************************************************)
(* random_letter and the structure of a sequence.                          *)
(***************************************************************************)
\* random.choice(LETTER_ALPHABET): the set of its outcomes
random_letter == Letters

\* the number of letters from position p on, up to the next separator or the end
RECURSIVE RunLen(_, _)
RunLen(sq, p) ==
  IF p < Len(sq) /\ At(sq, p) # SPACE_CHAR THEN 1 + RunLen(sq, p + 1) ELSE 0

\* the number of letters before position p, back to the previous separator or the start
RECURSIVE RunLenBack(_, _)
RunLenBack(sq, p) ==
  IF p >= 1 /\ At(sq, p - 1) # SPACE_CHAR THEN 1 + RunLenBack(sq, p - 1) ELSE 0

\* the spans of the lazy pattern [a-z]{min_block,}?: each match stops after
\* min_block letters
RECURSIVE finditer_lazy(_, _, _)
finditer_lazy(sq, mb, p) ==
  IF p > Len(sq) THEN <<>>
  ELSE LET c == RunLen(sq, p)
       IN IF c >= mb
            THEN << <<p, p + mb>> >> \o finditer_lazy(sq, mb, IF mb = 0 THEN p + 1 ELSE p + mb)
            ELSE finditer_lazy(sq, mb, p + 1)

(***************************************************************************)
(* re.finditer(r'[a-z]{min_block,}', s): the spans of the successive       *)
(* leftmost greedy matches.  The scan resumes at the end of a match; an    *)
(* empty match (min_block = 0) moves the scan one position on.             *)
(***************************************************************************)
RECURSIVE finditer(_, _, _)
finditer(sq, mb, p) ==
  IF p > Len(sq) THEN <<>>
  ELSE LET c == RunLen(sq, p)
       IN IF c >= mb
            THEN << <<p, p + c>> >> \o finditer(sq, mb, IF c = 0 THEN p + 1 ELSE p + c)
            ELSE finditer(sq, mb, p + 1)

(***************************************************************************)
(* find_word_matches                                                       *)
(***************************************************************************)
\* lines 81-87: the bounded matches whose token is a word
IsCandidate(sq, ws, m) ==
  LET start == m[1]
      end == m[2]
      token == Slice(sq, start, end)
      left_ok == (start = 0) \/ (At(sq, start - 1) = SPACE_CHAR)
      right_ok == (end = Len(sq)) \/ (At(sq, end) = SPACE_CHAR)
  IN left_ok /\ right_ok /\ token \in ws

RECURSIVE candidates_of(_, _, _)
candidates_of(sq, ws, spans) ==
  IF spans = <<>> THEN <<>>
  ELSE LET m == Head(spans)
           rest == candidates_of(sq, ws, Tail(spans))
       IN IF IsCandidate(sq, ws, m)
            THEN << <<m[1], m[2], Slice(sq, m[1], m[2])>> >> \o rest
            ELSE rest

\* the sort key (end - start, start): the shortest candidate first
KeyLess_shortest_first(a, b) ==
  \/ a[2] - a[1] < b[2] - b[1]
  \/ (a[2] - a[1] = b[2] - b[1] /\ a[1] < b[1])

\* line 89: the sort key (-(end - start), start)
KeyLess(a, b) ==
  \/ a[2] - a[1] > b[2] - b[1]
  \/ (a[2] - a[1] = b[2] - b[1] /\ a[1] < b[1])

RECURSIVE InsertSorted(_, _)
InsertSorted(m, sorted) ==
  IF sorted = <<>> THEN <<m>>
  ELSE IF KeyLess(m, Head(sorted)) THEN <<m>> \o sorted
  ELSE <<Head(sorted)>> \o InsertSorted(m, Tail(sorted))

\* list.sort is stable: an element goes after the elements of equal key before it
RECURSIVE sort_matches(_, _)
sort_matches(ms, sorted) ==
  IF ms = <<>> THEN sorted
  ELSE sort_matches(Tail(ms), InsertSorted(Head(ms), sorted))

\* lines 91-98: keep non-overlapping
RECURSIVE keep_non_overlapping(_, _, _)
keep_non_overlapping(ms, occ, chosen) ==
  IF ms = <<>> THEN chosen
  ELSE LET start == Head(ms)[1]
           end == Head(ms)[2]
       IN IF \E k \in start..(end - 1) : At(occ, k)
            THEN keep_non_overlapping(Tail(ms), occ, chosen)
            ELSE keep_non_overlapping(
                   Tail(ms),
                   [k \in 1..Len(occ) |-> occ[k] \/ (start <= k - 1 /\ k - 1 < end)],
                   Append(chosen, Head(ms)))

\* a search for words as substrings, with no overlap resolution
find_word_matches_substrings(sq, ws, mb) ==
  LET spans == {<<a, b, Slice(sq, a, b)>> : a \in 0..Len(sq), b \in 0..Len(sq)}
      hits == {m \in spans : m[1] < m[2] /\ m[2] - m[1] >= mb /\ m[3] \in ws}
      RECURSIVE AsSeq(_)
      AsSeq(S) == IF S = {} THEN <<>>
                  ELSE LET m == CHOOSE x \in S : TRUE IN <<m>> \o AsSeq(S \ {m})
  IN sort_matches(AsSeq(hits), <<>>)

\* lines 80-87: the list matches before the sort
find_candidates(sq, ws, mb) == candidates_of(sq, ws, finditer(sq, mb, 0))

\* lines 88-99: the sort and the selection, on a list of candidates of a
\* sequence of len cells
select_matches(cands, len) ==
  keep_non_overlapping(sort_matches(cands, <<>>), [k \in 1..len |-> FALSE], <<>>)

find_word_matches(sq, ws, mb) ==
  select_matches(find_candidates(sq, ws, mb), Len(sq))

(***************************************************************************)
(* freeze_flags_with_adjacent_spaces: the flags after the loop body has    *)
(* run for match number w, and after the whole loop.                       *)
(***************************************************************************)
\* the loop body without the two adjacent-separator branches
freeze_one_letters_only(sq, fz, w, m) ==
  LET start == m[1]
      end == m[2]
      hit(k) == start <= k /\ k < end
  IN [frozen |-> [k \in 1..Len(sq) |-> fz.frozen[k] \/ hit(k - 1)],
      word_id |-> [k \in 1..Len(sq) |-> IF hit(k - 1) THEN w ELSE fz.word_id[k]]]

\* the loop body without the branch of lines 165-167
freeze_one_no_after(sq, fz, w, m) ==
  LET start == m[1]
      end == m[2]
      before == start - 1 >= 0 /\ At(sq, start - 1) = SPACE_CHAR
      hit(k) == \/ (start <= k /\ k < end)
                \/ (before /\ k = start - 1)
  IN [frozen |-> [k \in 1..Len(sq) |-> fz.frozen[k] \/ hit(k - 1)],
      word_id |-> [k \in 1..Len(sq) |-> IF hit(k - 1) THEN w ELSE fz.word_id[k]]]

\* lines 155-167: the loop body for match number w
freeze_one(sq, fz, w, m) ==
  LET start == m[1]
      end == m[2]
      before == start - 1 >= 0 /\ At(sq, start - 1) = SPACE_CHAR
      after == end < Len(sq) /\ At(sq, end) = SPACE_CHAR
      hit(k) == \/ (start <= k /\ k < end)
                \/ (before /\ k = start - 1)
                \/ (after /\ k = end)
  IN [frozen |-> [k \in 1..Len(sq) |-> fz.frozen[k] \/ hit(k - 1)],
      word_id |-> [k \in 1..Len(sq) |-> IF hit(k - 1) THEN w ELSE fz.word_id[k]]]

RECURSIVE freeze_from(_, _, _, _)
freeze_from(sq, fz, ms, w) ==
  IF w >= Len(ms) THEN fz
  ELSE freeze_from(sq, freeze_one(sq, fz, w, At(ms, w)), ms, w + 1)

NoFlags(len) == [frozen |-> [k \in 1..len |-> FALSE], word_id |-> [k \in 1..len |-> None]]

freeze_flags_with_adjacent_spaces(sq, fz, ms) == freeze_from(sq, fz, ms, 0)

(***************************************************************************)
(* all_tokens_valid                                                        *)
(***************************************************************************)
\* re.findall(r'[a-z]{min_block,}', s)
findall(sq, mb) ==
  LET spans == finditer(sq, mb, 0)
  IN [k \in 1..Len(spans) |-> Slice(sq, spans[k][1], spans[k][2])]

\* any() where the source has all()
all_tokens_valid_any(sq, ws, mb) ==
  LET toks == findall(sq, mb)
  IN IF toks = <<>> THEN FALSE ELSE \E k \in 1..Len(toks) : toks[k] \in ws

all_tokens_valid(sq, ws, mb) ==
  LET toks == findall(sq, mb)
  IN IF toks = <<>> THEN FALSE ELSE \A k \in 1..Len(toks) : toks[k] \in ws

(***************************************************************************)
(* render_colored: the frame as a sequence of segments, a green segment    *)
(* for each contiguous frozen region of one word_id, a plain segment for   *)
(* each other cell.                                                        *)
(***************************************************************************)
RECURSIVE RegionEnd(_, _, _, _)
RegionEnd(fz, wi, w, j) ==
  IF j < Len(fz) /\ At(fz, j) /\ At(wi, j) = w THEN RegionEnd(fz, wi, w, j + 1) ELSE j

RECURSIVE render_from(_, _, _, _)
render_from(sq, fz, wi, p) ==
  IF p >= Len(sq) THEN <<>>
  ELSE IF At(fz, p)
    THEN LET j == RegionEnd(fz, wi, At(wi, p), p)
         IN << [green |-> TRUE, text |-> Slice(sq, p, j)] >> \o render_from(sq, fz, wi, j)
    ELSE << [green |-> FALSE, text |-> <<At(sq, p)>>] >> \o render_from(sq, fz, wi, p + 1)

render_colored(sq, fz, wi) == render_from(sq, fz, wi, 0)

(***************************************************************************)
(* The structural invariants of a sequence, stated on the sequence itself. *)
(***************************************************************************)
IsRun(sq, a, b) ==
  /\ 0 <= a /\ a < b /\ b <= Len(sq)
  /\ \A k \in a..(b - 1) : At(sq, k) # SPACE_CHAR
  /\ (a = 0 \/ At(sq, a - 1) = SPACE_CHAR)
  /\ (b = Len(sq) \/ At(sq, b) = SPACE_CHAR)

MaximalRuns(sq) == {r \in (0..Len(sq)) \X (0..Len(sq)) : IsRun(sq, r[1], r[2])}

NoEdgeSeparator(sq) == Len(sq) >= 1 => (At(sq, 0) # SPACE_CHAR /\ At(sq, Len(sq) - 1) # SPACE_CHAR)
NoAdjacentSeparators(sq) ==
  \A k \in 0..(Len(sq) - 2) : ~(At(sq, k) = SPACE_CHAR /\ At(sq, k + 1) = SPACE_CHAR)
RunsLongEnough(sq, mb) == \A r \in MaximalRuns(sq) : r[2] - r[1] >= mb
Valid(sq, mb) == NoEdgeSeparator(sq) /\ NoAdjacentSeparators(sq) /\ RunsLongEnough(sq, mb)

(***************************************************************************)
(* mutate_once: the candidate search for one cell.                         *)
(***************************************************************************)
NoneChar == "None"

\* random.shuffle(candidates): the set of its outcomes
Shuffles(cands) ==
  {p \in [1..Len(cands) -> 1..Len(cands)] : \A k \in 1..Len(cands) : \E j \in 1..Len(cands) : p[j] = k}

candidates == LETTER_ALPHABET \o <<SPACE_CHAR>>

\* lines 214-255 without the min_block test of line 234
space_accepted_no_min_block(cs, idx, fz, mb) ==
  LET len == Len(cs)
      left == IF idx - 1 >= 0 THEN At(cs, idx - 1) ELSE NoneChar
      right == IF idx + 1 < len THEN At(cs, idx + 1) ELSE NoneChar
      lcount == RunLenBack(cs, idx)
      rcount == RunLen(cs, idx + 1)
  IN /\ ~(idx = 0 \/ idx = len - 1)
     /\ ~(left = SPACE_CHAR \/ right = SPACE_CHAR)
     /\ ~(\E j \in (idx - lcount)..(idx - 1) : At(fz, j))
     /\ ~(\E k \in (idx + 1)..(idx + rcount) : At(fz, k))

\* lines 214-235 without the frozen-cell scans of lines 238-255
space_accepted_no_frozen_scan(cs, idx, fz, mb) ==
  LET len == Len(cs)
      left == IF idx - 1 >= 0 THEN At(cs, idx - 1) ELSE NoneChar
      right == IF idx + 1 < len THEN At(cs, idx + 1) ELSE NoneChar
      lcount == RunLenBack(cs, idx)
      rcount == RunLen(cs, idx + 1)
  IN /\ ~(idx = 0 \/ idx = len - 1)
     /\ ~(left = SPACE_CHAR \/ right = SPACE_CHAR)
     /\ ~(lcount < mb \/ rcount < mb)

\* lines 214-255: the separator candidate passes every continue
space_accepted(cs, idx, fz, mb) ==
  LET len == Len(cs)
      left == IF idx - 1 >= 0 THEN At(cs, idx - 1) ELSE NoneChar
      right == IF idx + 1 < len THEN At(cs, idx + 1) ELSE NoneChar
      lcount == RunLenBack(cs, idx)
      rcount == RunLen(cs, idx + 1)
  IN /\ ~(idx = 0 \/ idx = len - 1)
     /\ ~(left = SPACE_CHAR \/ right = SPACE_CHAR)
     /\ ~(lcount < mb \/ rcount < mb)
     /\ ~(\E j \in (idx - lcount)..(idx - 1) : At(fz, j))
     /\ ~(\E k \in (idx + 1)..(idx + rcount) : At(fz, k))

\* the first candidate is taken even when it is a rejected separator
choose_candidate_first(cands, attempts, cs, idx, fz, mb) ==
  IF cands = <<>> THEN NoneChar ELSE Head(cands)

\* the for loop with the break of line 211 taken from the second attempt on
RECURSIVE choose_candidate_one_attempt(_, _, _, _, _, _)
choose_candidate_one_attempt(cands, attempts, cs, idx, fz, mb) ==
  IF cands = <<>> THEN NoneChar
  ELSE IF attempts + 1 > 1 THEN NoneChar
  ELSE IF Head(cands) = SPACE_CHAR
    THEN IF space_accepted(cs, idx, fz, mb)
           THEN SPACE_CHAR
           ELSE choose_candidate_one_attempt(Tail(cands), attempts + 1, cs, idx, fz, mb)
    ELSE Head(cands)

\* lines 206-261: the for loop over the shuffled candidates; NoneChar when
\* the loop ends with chosen still None
RECURSIVE choose_candidate(_, _, _, _, _, _)
choose_candidate(cands, attempts, cs, idx, fz, mb) ==
  IF cands = <<>> THEN NoneChar
  ELSE IF attempts + 1 > MaxAttempts THEN NoneChar
  ELSE IF Head(cands) = SPACE_CHAR
    THEN IF space_accepted(cs, idx, fz, mb)
           THEN SPACE_CHAR
           ELSE choose_candidate(Tail(cands), attempts + 1, cs, idx, fz, mb)
    ELSE Head(cands)

\* lines 206-261: the value of attempts when the for loop is left, by the break
\* of line 211, by the break that follows chosen = cand, or by running out of
\* candidates
RECURSIVE attempts_made(_, _, _, _, _, _)
attempts_made(cands, attempts, cs, idx, fz, mb) ==
  IF cands = <<>> THEN attempts
  ELSE IF attempts + 1 > MaxAttempts THEN attempts + 1
  ELSE IF Head(cands) = SPACE_CHAR /\ ~space_accepted(cs, idx, fz, mb)
    THEN attempts_made(Tail(cands), attempts + 1, cs, idx, fz, mb)
    ELSE attempts + 1

\* frozen cells are not passed over
skip_frozen_never(fz, idx) == FALSE

\* lines 199-200: whether cell idx is passed over because it is frozen
skip_frozen(fz, idx) == At(fz, idx)

(***************************************************************************)
(* main: start-up.                                                         *)
(***************************************************************************)
LoopPcs == {"detect", "reset", "freeze", "render", "check", "mutate", "sleep"}

Idle ==
  /\ wordset = {} /\ s = <<>> /\ n = 0 /\ frozen = <<>> /\ word_id = <<>>
  /\ matches = <<>> /\ found = <<>> /\ wid = 0 /\ i = 0 /\ chars = <<>> /\ frame = <<>>
  /\ exit_code = -1 /\ s0 = <<>> /\ gen = <<>> /\ rendered = <<>> /\ hist = {}
  /\ fallbacks = FALSE /\ renders = 0

Init ==
  /\ dict \in DictFiles \cup {NoFile}
  /\ arg_n \in 0..MaxN
  /\ min_block \in 0..MaxMinBlock
  /\ pc = "start"
  /\ Idle

\* lines 301-303: load_wordset and the empty-set test
LoadWordset ==
  /\ pc = "start"
  /\ IF dict = NoFile
       THEN /\ pc' = "failed" /\ exit_code' = 1 /\ UNCHANGED wordset
       ELSE /\ wordset' = load_lines(dict, min_block)
            /\ IF wordset' = {}
                 THEN pc' = "failed" /\ exit_code' = 1
                 ELSE pc' = "build" /\ UNCHANGED exit_code
  /\ UNCHANGED <<renders, found, dict, arg_n, min_block, s, n, frozen, word_id, matches, wid, i,
                 chars, frame, s0, gen, rendered, hist, fallbacks>>

\* can_place_space without the test of the cells that remain
can_place_space_no_remaining(cs, len, mb) ==
  LET left_since_space == RunLenBack(cs, Len(cs))
  IN left_since_space >= mb

\* lines 59-68: can_place_space of build_initial_string
can_place_space(cs, len, mb) ==
  LET remaining == len - Len(cs)
      left_since_space == RunLenBack(cs, Len(cs))
  IN left_since_space >= mb /\ (remaining - 1) >= mb

\* lines 53-72: one turn of the while loop of build_initial_string
BuildAppend ==
  /\ pc = "build"
  /\ Len(chars) < arg_n
  /\ \/ /\ Len(chars) = 0
        /\ \E c \in random_letter : chars' = Append(chars, c)
     \/ /\ Len(chars) # 0
        /\ can_place_space(chars, arg_n, min_block)
        /\ chars' = Append(chars, SPACE_CHAR)
     \/ /\ Len(chars) # 0
        /\ \E c \in random_letter : chars' = Append(chars, c)
  /\ UNCHANGED <<renders, found, dict, arg_n, min_block, wordset, s, n, frozen, word_id, matches,
                 pc, wid, i, frame, exit_code, s0, gen, rendered, hist, fallbacks>>

\* lines 73-76 and 305-311: the end of build_initial_string and main's set-up;
\* chars[-1] of an empty list raises IndexError, which nothing catches
BuildReturn ==
  /\ pc = "build"
  /\ ~(Len(chars) < arg_n)
  /\ IF chars = <<>>
       THEN /\ pc' = "crashed" /\ exit_code' = 1
            /\ UNCHANGED <<s, n, frozen, word_id, s0, gen, chars>>
       ELSE /\ \E c \in random_letter :
                 LET fixed == IF At(chars, Len(chars) - 1) = SPACE_CHAR
                                THEN [chars EXCEPT ![Len(chars)] = c]
                                ELSE chars
                 IN s' = Slice(fixed, 0, Min(arg_n, Len(fixed)))
            /\ n' = Len(s')
            /\ frozen' = NoFlags(n').frozen
            /\ word_id' = NoFlags(n').word_id
            /\ s0' = s' /\ gen' = s'
            /\ chars' = <<>>
            /\ pc' = "detect" /\ UNCHANGED exit_code
  /\ UNCHANGED <<renders, found, dict, arg_n, min_block, wordset, matches, wid, i, frame,
                 rendered, hist, fallbacks>>

(***************************************************************************)
(* main: one tick of the loop.                                             *)
(***************************************************************************)
SetOf(sq) == {sq[k] : k \in 1..Len(sq)}

\* line 316
Detect ==
  /\ pc = "detect"
  /\ found' = find_candidates(s, wordset, min_block)
  /\ matches' = find_word_matches(s, wordset, min_block)
  /\ hist' = hist \cup SetOf(matches')
  /\ pc' = "reset"
  /\ UNCHANGED <<renders, dict, arg_n, min_block, wordset, s, n, frozen, word_id, wid, i,
                 chars, frame, exit_code, s0, gen, rendered, fallbacks>>

\* line 317
ResetFlags ==
  /\ pc = "reset"
  /\ frozen' = NoFlags(n).frozen
  /\ word_id' = NoFlags(n).word_id
  /\ wid' = 0
  /\ pc' = "freeze"
  /\ UNCHANGED <<renders, found, dict, arg_n, min_block, wordset, s, n, matches, i, chars, frame,
                 exit_code, s0, gen, rendered, hist, fallbacks>>

\* line 318: one turn of the loop of freeze_flags_with_adjacent_spaces, which
\* writes into main's lists, or its return
FreezeMatch ==
  /\ pc = "freeze"
  /\ IF wid < Len(matches)
       THEN LET fz == freeze_one(s, [frozen |-> frozen, word_id |-> word_id], wid,
                                 At(matches, wid))
            IN /\ frozen' = fz.frozen
               /\ word_id' = fz.word_id
               /\ wid' = wid + 1
               /\ UNCHANGED pc
       ELSE /\ pc' = "render"
            /\ UNCHANGED <<frozen, word_id, wid>>
  /\ UNCHANGED <<renders, found, dict, arg_n, min_block, wordset, s, n, matches, i, chars, frame,
                 exit_code, s0, gen, rendered, hist, fallbacks>>

\* lines 321-322
Render ==
  /\ pc = "render"
  /\ frame' = render_colored(s, frozen, word_id)
  /\ rendered' = s
  /\ renders' = renders + 1
  /\ pc' = "check"
  /\ UNCHANGED <<found, dict, arg_n, min_block, wordset, s, n, frozen, word_id, matches,
                 wid, i, chars, exit_code, s0, gen, hist, fallbacks>>

\* the termination test with the break left out
Check_no_break ==
  /\ pc = "check"
  /\ pc' = "mutate" /\ chars' = s /\ i' = 0
  /\ UNCHANGED <<renders, found, dict, arg_n, min_block, wordset, s, n, frozen, word_id, matches,
                 wid, frame, exit_code, s0, gen, rendered, hist, fallbacks>>

\* lines 324-329 and 194-195: the termination test; the break ends main, or
\* mutate_once is entered
Check ==
  /\ pc = "check"
  /\ IF all_tokens_valid(s, wordset, min_block)
       THEN /\ pc' = "converged" /\ exit_code' = 0
            /\ UNCHANGED <<chars, i>>
       ELSE /\ pc' = "mutate" /\ chars' = s /\ i' = 0
            /\ UNCHANGED exit_code
  /\ UNCHANGED <<renders, found, dict, arg_n, min_block, wordset, s, n, frozen, word_id, matches,
                 wid, frame, s0, gen, rendered, hist, fallbacks>>

\* chars aliases the caller's sequence instead of copying it
caller_s_aliased(cur, cs) == cs

\* line 195: chars is a copy, so the caller's s is untouched by chars[i] = chosen
caller_s(cur, cs) == cur

\* lines 198-265: one turn of the for loop of mutate_once
MutateCell ==
  /\ pc = "mutate"
  /\ i < Len(chars)
  /\ \/ /\ skip_frozen(frozen, i)
        /\ UNCHANGED <<chars, fallbacks>>
     \/ /\ ~skip_frozen(frozen, i)
        /\ UNCHANGED <<chars, fallbacks>>
     \/ /\ ~skip_frozen(frozen, i)
        /\ \E p \in Shuffles(candidates) :
             LET cands == [k \in 1..Len(candidates) |-> candidates[p[k]]]
                 chosen == choose_candidate(cands, 0, chars, i, frozen, min_block)
             IN IF chosen = NoneChar
                  THEN /\ \E c \in Letters : chars' = [chars EXCEPT ![i + 1] = c]
                       /\ fallbacks' = TRUE
                  ELSE /\ chars' = [chars EXCEPT ![i + 1] = chosen]
                       /\ UNCHANGED fallbacks
  /\ i' = i + 1
  /\ s' = caller_s(s, chars')
  /\ UNCHANGED <<renders, found, dict, arg_n, min_block, wordset, n, frozen, word_id, matches, pc,
                 wid, frame, exit_code, s0, gen, rendered, hist>>

\* lines 266 and 329: mutate_once returns and main assigns s
MutateReturn ==
  /\ pc = "mutate"
  /\ ~(i < Len(chars))
  /\ s' = chars
  /\ gen' = chars
  /\ chars' = <<>>
  /\ pc' = "sleep"
  /\ UNCHANGED <<renders, found, dict, arg_n, min_block, wordset, n, frozen, word_id, matches, wid,
                 i, frame, exit_code, s0, rendered, hist, fallbacks>>

\* the next tick goes straight to its frame, with the matches and the flags of
\* the tick before
Sleep_skip_detect ==
  /\ pc = "sleep"
  /\ pc' = "render"
  /\ frame' = <<>>
  /\ rendered' = <<>>
  /\ renders' = 0
  /\ UNCHANGED <<found, dict, arg_n, min_block, wordset, s, n, frozen, word_id, matches,
                 wid, i, chars, exit_code, s0, gen, hist, fallbacks>>

\* lines 331-332: the tick ends, and with it the tick's frame
Sleep ==
  /\ pc = "sleep"
  /\ pc' = "detect"
  /\ frame' = <<>>
  /\ rendered' = <<>>
  /\ renders' = 0
  /\ UNCHANGED <<found, dict, arg_n, min_block, wordset, s, n, frozen, word_id, matches,
                 wid, i, chars, exit_code, s0, gen, hist, fallbacks>>

\* lines 334-338: KeyboardInterrupt raised anywhere inside the try block
Interrupt ==
  /\ pc \in LoopPcs
  /\ frame' = render_colored(s, frozen, word_id)
  /\ rendered' = s
  /\ pc' = "cancelled"
  /\ exit_code' = 0
  /\ UNCHANGED <<renders, found, dict, arg_n, min_block, wordset, s, n, frozen, word_id, matches,
                 wid, i, chars, s0, gen, hist, fallbacks>>

Next ==
  \/ LoadWordset
  \/ BuildAppend
  \/ BuildReturn
  \/ Detect
  \/ ResetFlags
  \/ FreezeMatch
  \/ Render
  \/ Check
  \/ MutateCell
  \/ MutateReturn
  \/ Sleep
  \/ Interrupt

Spec == Init /\ [][Next]_vars

(***************************************************************************)
(* build_initial_string on its own: every n >= 1 and every min_block of    *)
(* the bounds (n <= 0 ends in the IndexError of line 74, as in Spec).      *)
(***************************************************************************)
InitBuild ==
  /\ dict = DictSmall
  /\ arg_n \in 1..MaxLen
  /\ min_block \in 0..MaxMinBlock
  /\ pc = "build"
  /\ Idle

NextBuild ==
  \/ BuildAppend
  \/ BuildReturn

SpecBuild == InitBuild /\ [][NextBuild]_vars

(***************************************************************************)
(* Detection, locking, rendering and the termination test on their own:    *)
(* one tick from every sequence over letters and the separator.            *)
(***************************************************************************)
InitDetect ==
  /\ dict \in DictFiles
  /\ min_block \in 0..MaxMinBlock
  /\ wordset = load_lines(dict, min_block)
  /\ s \in SeqsUpTo(Cells, MaxLen)
  /\ arg_n = Len(s) /\ n = Len(s)
  /\ frozen = NoFlags(n).frozen /\ word_id = NoFlags(n).word_id
  /\ s0 = s /\ gen = s
  /\ pc = "detect"
  /\ matches = <<>> /\ found = <<>> /\ wid = 0 /\ i = 0 /\ chars = <<>> /\ frame = <<>>
  /\ exit_code = -1 /\ rendered = <<>> /\ hist = {} /\ fallbacks = FALSE /\ renders = 0

NextDetect ==
  \/ Detect
  \/ ResetFlags
  \/ FreezeMatch
  \/ Render
  \/ Check

SpecDetect == InitDetect /\ [][NextDetect]_vars

(***************************************************************************)
(* mutate_once on its own: every sequence and every assignment of lock     *)
(* flags of the bounds.                                                    *)
(***************************************************************************)
InitMutate ==
  /\ dict = DictSmall
  /\ min_block \in 0..MaxMinBlock
  /\ wordset = load_lines(dict, min_block)
  /\ s \in SeqsUpTo(Cells, MaxMutLen)
  /\ arg_n = Len(s) /\ n = Len(s)
  /\ frozen \in [1..n -> BOOLEAN]
  /\ word_id = NoFlags(n).word_id
  /\ s0 = s /\ gen = s
  /\ pc = "mutate" /\ chars = s /\ i = 0
  /\ matches = <<>> /\ found = <<>> /\ wid = 0 /\ frame = <<>>
  /\ exit_code = -1 /\ rendered = <<>> /\ hist = {} /\ fallbacks = FALSE /\ renders = 0

NextMutate ==
  \/ MutateCell
  \/ MutateReturn

SpecMutate == InitMutate /\ [][NextMutate]_vars

(***************************************************************************)
(* The sort and the selection of find_word_matches on their own: every     *)
(* list of at most MaxCands spans of a sequence of MaxLen letters, whether *)
(* the spans overlap or not.                                               *)
(***************************************************************************)
\* every (start, end, token) with 0 <= start < end <= len(sq)
AllSpans(sq) ==
  {<<r[1], r[2], Slice(sq, r[1], r[2])>> :
     r \in {q \in (0..Len(sq)) \X (0..Len(sq)) : q[1] < q[2]}}

InitSelect ==
  /\ dict = DictSmall
  /\ min_block = 1
  /\ wordset = load_lines(dict, min_block)
  /\ s = [k \in 1..MaxLen |-> LETTER_ALPHABET[1]]
  /\ arg_n = Len(s) /\ n = Len(s)
  /\ frozen = NoFlags(n).frozen /\ word_id = NoFlags(n).word_id
  /\ s0 = s /\ gen = s
  /\ found \in UNION {[1..k -> AllSpans(s)] : k \in 0..MaxCands}
  /\ pc = "select"
  /\ matches = <<>> /\ wid = 0 /\ i = 0 /\ chars = <<>> /\ frame = <<>>
  /\ exit_code = -1 /\ rendered = <<>> /\ hist = {} /\ fallbacks = FALSE /\ renders = 0

\* lines 88-99
SelectMatches ==
  /\ pc = "select"
  /\ matches' = select_matches(found, Len(s))
  /\ pc' = "reset"
  /\ UNCHANGED <<renders, found, dict, arg_n, min_block, wordset, s, n, frozen, word_id, wid, i,
                 chars, frame, exit_code, s0, gen, rendered, hist, fallbacks>>

NextSelect == SelectMatches

SpecSelect == InitSelect /\ [][NextSelect]_vars

(***************************************************************************)
(* Properties.                                                             *)
(***************************************************************************)
Spaces(sq) == {k \in 0..(Len(sq) - 1) : At(sq, k) = SPACE_CHAR}
InLoop == pc \in LoopPcs \cup {"converged", "cancelled"}
SpansOverlap(a, b) == \E k \in a[1]..(a[2] - 1) : b[1] <= k /\ k < b[2]
LongRuns(sq, mb) == {r \in MaximalRuns(sq) : r[2] - r[1] >= mb}
RunText(sq, r) == Slice(sq, r[1], r[2])

RECURSIVE FrameText(_)
FrameText(fr) == IF fr = <<>> THEN <<>> ELSE Head(fr).text \o FrameText(Tail(fr))

\* C1: in a run of the loop that starts from a sequence satisfying the three
\* structural invariants, every generation (every sequence mutate_once returns,
\* under the lock flags of the tick) has no separator in its first or last cell,
\* no two adjacent separators and every maximal letter run of length >= min_block.
C1_InvariantPreservation ==
  (InLoop /\ Valid(s0, min_block)) => Valid(s, min_block)

\* a later generation that holds a separator where the initial sequence held a letter
C1_Witness ==
  /\ pc = "sleep" /\ Valid(s0, min_block) /\ min_block >= 1
  /\ \E k \in Spaces(s) : At(s0, k) # SPACE_CHAR

C3_LockMonotone ==
  \A m \in hist :
    LET now == find_word_matches(s, wordset, min_block)
        fz == freeze_flags_with_adjacent_spaces(s, NoFlags(Len(s)), now)
    IN /\ Slice(s, m[1], m[2]) = m[3]
       /\ m \in SetOf(now)
       /\ \A k \in m[1]..(m[2] - 1) : At(fz.frozen, k)

\* a generation that differs from the one before it and still holds an earlier match
C3_Witness ==
  /\ pc = "sleep" /\ hist # {} /\ rendered # <<>> /\ s # rendered
  /\ Cardinality(Spaces(s)) >= 1

\* C4: mutate_once leaves every cell whose lock flag is set at its input value.
C4_FrozenUnchanged ==
  /\ pc = "mutate" => \A k \in 0..(Len(chars) - 1) : At(frozen, k) => At(chars, k) = At(s0, k)
  /\ pc = "sleep" => \A k \in 0..(Len(s) - 1) : At(frozen, k) => At(s, k) = At(s0, k)

\* a returned sequence with a locked cell and an unlocked separator turned into a letter
C4_Witness ==
  /\ pc = "sleep" /\ s # s0
  /\ \E k \in 0..(Len(s) - 1) : At(frozen, k)
  /\ \E k \in 0..(Len(s) - 1) : ~At(frozen, k) /\ At(s0, k) = SPACE_CHAR /\ At(s, k) # SPACE_CHAR

\* C5: mutate_once always goes on to return a sequence of the length of its
\* input, and a cell for which the separator candidate is rejected keeps its value
\* or receives a letter.
C5_NeverRaisesSameLength ==
  /\ [](pc = "mutate" => (Len(chars) = Len(s0) /\ ENABLED NextMutate))
  /\ [](pc = "sleep" => Len(s) = Len(s0))
  /\ [][(pc = "mutate" /\ i < Len(chars) /\ ~space_accepted(chars, i, frozen, min_block))
          => (At(chars', i) \in Letters \/ At(chars', i) = At(chars, i))]_vars

\* min_block is larger than any split of the input allows, and a sequence came back changed
C5_Witness ==
  /\ pc = "sleep" /\ min_block > Len(s0) /\ Len(s0) >= 2 /\ s # s0
  /\ \A k \in 0..(Len(s0) - 1) : ~At(frozen, k)

\* C6 as stated: all_tokens_valid is false for a sequence with no letter run, false
\* for a sequence with a maximal letter run that is not in the word set, and true
\* only when every maximal letter run is in the word set.
C6_Original ==
  pc \in {"converged", "mutate"} =>
    LET result == (pc = "converged")
    IN /\ MaximalRuns(s) = {} => ~result
       /\ (\E r \in MaximalRuns(s) : RunText(s, r) \notin wordset) => ~result
       /\ result => \A r \in MaximalRuns(s) : RunText(s, r) \in wordset

\* C6 amended: all_tokens_valid is false for a sequence with no letter run, false
\* for a sequence with a maximal letter run of length >= min_block that is not in
\* the word set, and true only when every maximal letter run of length >= min_block
\* is in the word set; shorter runs are not looked at.
C6_TerminationCheck ==
  pc \in {"converged", "mutate"} =>
    LET result == (pc = "converged")
    IN /\ MaximalRuns(s) = {} => ~result
       /\ (\E r \in LongRuns(s, min_block) : RunText(s, r) \notin wordset) => ~result
       /\ result => \A r \in LongRuns(s, min_block) : RunText(s, r) \in wordset

\* the check passed for a sequence of two runs
C6_Witness ==
  pc = "converged" /\ Cardinality(LongRuns(s, min_block)) >= 2

\* C7: no two matches returned by find_word_matches share a cell.
C7_NonOverlap ==
  pc # "detect" =>
    \A a \in 1..Len(matches) : \A b \in 1..Len(matches) :
      a # b => ~SpansOverlap(matches[a], matches[b])

\* two matches were returned
C7_Witness ==
  pc = "reset" /\ Len(matches) >= 2

\* C8: after freeze_flags_with_adjacent_spaces has run on all-false flags a cell is
\* locked exactly when it lies in the span of a selected match or is a separator
\* right before the start or right after the end of one.
C8_LockedCells ==
  pc = "render" =>
    \A k \in 0..(Len(s) - 1) :
      At(frozen, k) <=>
        \E a \in 1..Len(matches) :
          LET start == matches[a][1]
              end == matches[a][2]
          IN \/ (start <= k /\ k < end)
             \/ (At(s, k) = SPACE_CHAR /\ (k = start - 1 \/ k = end))

\* two matched runs and the separator between them, every cell locked
C8_Witness ==
  /\ pc = "render" /\ Len(matches) = 2 /\ Spaces(s) # {}
  /\ \A k \in 0..(Len(s) - 1) : At(frozen, k)

\* C9: when the termination check passes the loop ends in Converged without
\* another mutation: the sequence at exit is the one rendered and checked in
\* that tick, and Converged has no successor.
C9_ConvergedStops ==
  /\ [](pc = "converged" =>
          (s = rendered /\ s = gen /\ exit_code = 0
           /\ all_tokens_valid(s, wordset, min_block)))
  /\ [][(pc = "check" /\ all_tokens_valid(s, wordset, min_block))
          => (pc' \in {"converged", "cancelled"} /\ s' = s)]_vars
  /\ [][pc # "converged"]_vars

\* the loop converged on a generation that mutate_once produced
C9_Witness ==
  pc = "converged" /\ s # s0

\* C10 as stated: an interrupt at any point of a tick ends in Cancelled with one
\* final frame and exit status 0, and the sequence of that frame is a complete
\* generation that satisfies the three structural invariants.
C10_Original ==
  /\ pc \in LoopPcs => ENABLED Interrupt
  /\ pc = "cancelled" =>
       /\ exit_code = 0
       /\ FrameText(frame) = rendered
       /\ rendered = gen
       /\ Valid(rendered, min_block)

\* C10 amended: an interrupt at any point of a tick ends in Cancelled with one
\* final frame and exit status 0; the sequence of that frame is a complete
\* generation, never a partially mutated one, and it satisfies the three
\* structural invariants whenever the initial sequence did.
C10_InterruptCompleteGeneration ==
  /\ pc \in LoopPcs => ENABLED Interrupt
  /\ pc = "cancelled" =>
       /\ exit_code = 0
       /\ FrameText(frame) = rendered
       /\ rendered = gen
       /\ Valid(s0, min_block) => Valid(rendered, min_block)

\* an interrupt that arrived while mutate_once had rewritten some cells
C10_Witness ==
  /\ pc = "cancelled" /\ chars # <<>> /\ chars # s
  /\ Valid(s0, min_block) /\ min_block >= 1

\* the lock flags and word ids that match detection and locking derive from sq alone
DerivedFlags(sq) ==
  freeze_flags_with_adjacent_spaces(sq, NoFlags(Len(sq)),
                                    find_word_matches(sq, wordset, min_block))

\* C11 as stated: on cancellation the lock flags handed to render_colored by the
\* interrupt handler are exactly the flags that match detection and locking derive
\* from the sequence printed in that frame, wherever in the tick the interrupt came.
C11_Original ==
  pc = "cancelled" =>
    /\ FrameText(frame) = s
    /\ frozen = DerivedFlags(s).frozen
    /\ frame = render_colored(s, DerivedFlags(s).frozen, DerivedFlags(s).word_id)

\* the word list file is missing, or no line of it passes the filters of load_wordset
WordSourceFails == dict = NoFile \/ load_lines(dict, min_block) = {}

\* C12 as stated: with a missing word list file or an empty loaded word set the
\* program ends with a failure status before any sequence is built, rendered or
\* mutated; no other exit is a failure (Converged and Cancelled exit with 0).
C12_Original ==
  /\ WordSourceFails =>
       (pc \in {"start", "failed"} /\ s = <<>> /\ chars = <<>> /\ frame = <<>>)
  /\ pc = "failed" => (WordSourceFails /\ exit_code = 1)
  /\ pc \in {"converged", "cancelled"} => exit_code = 0
  /\ exit_code \notin {-1, 0} => WordSourceFails

\* cells a..b-1 of cs are letters, none of them locked, and at least mb of them
FreeLetters(cs, fz, a, b, mb) ==
  /\ b - a >= mb
  /\ \A k \in a..(b - 1) : At(cs, k) # SPACE_CHAR /\ ~At(fz, k)

\* the conditions under which cell idx of cs may hold a separator: an inner cell,
\* letters on both sides, and the letter run that ends before it and the one that
\* starts after it each at least mb long and free of locked cells
SeparatorAllowed(cs, idx, fz, mb) ==
  /\ 0 < idx /\ idx < Len(cs) - 1
  /\ At(cs, idx - 1) # SPACE_CHAR /\ At(cs, idx + 1) # SPACE_CHAR
  /\ \E a \in 0..(idx - 1) :
       /\ (a = 0 \/ At(cs, a - 1) = SPACE_CHAR)
       /\ FreeLetters(cs, fz, a, idx, mb)
  /\ \E b \in (idx + 2)..Len(cs) :
       /\ (b = Len(cs) \/ At(cs, b) = SPACE_CHAR)
       /\ FreeLetters(cs, fz, idx + 1, b, mb)

\* C13: mutate_once sets a cell to the separator only if, on the sequence as
\* rewritten so far, the cell is neither first nor last, neither neighbour is a
\* separator, the letter runs on its left and on its right are both at least
\* min_block long, and neither run contains a locked cell.
C13_SeparatorPlacement ==
  /\ [](pc = "mutate" /\ i < Len(chars) /\ ~skip_frozen(frozen, i) =>
          \A p \in Shuffles(candidates) :
            LET cands == [k \in 1..Len(candidates) |-> candidates[p[k]]]
            IN choose_candidate(cands, 0, chars, i, frozen, min_block) = SPACE_CHAR
                 => SeparatorAllowed(chars, i, frozen, min_block))
  /\ [][(pc = "mutate" /\ i < Len(chars)
         /\ At(chars, i) # SPACE_CHAR /\ At(chars', i) = SPACE_CHAR)
          => SeparatorAllowed(chars, i, frozen, min_block)]_vars

\* a separator was written into a cell that held a letter, between two runs of
\* at least min_block >= 1 letters
C13_Witness ==
  /\ pc = "mutate" /\ min_block >= 1 /\ i >= 1
  /\ \E k \in 0..(i - 1) : At(chars, k) = SPACE_CHAR /\ At(s0, k) # SPACE_CHAR

SpanLen(m) == m[2] - m[1]

\* a comes before b in the order of the selection: longer first, then smaller start
Before(a, b) == SpanLen(a) > SpanLen(b) \/ (SpanLen(a) = SpanLen(b) /\ a[1] < b[1])

\* C14: the selection takes the candidates by descending length, then ascending
\* start, and skips every candidate that shares a cell with one already selected:
\* the result is in that order, a candidate is selected exactly when no selected
\* candidate before it in the order shares a cell with it, and a candidate that
\* is longer than every other one and overlaps each of them (length 5 against
\* two of length 4) is the only one selected.
C14_SelectionOrder ==
  pc \notin {"start", "build", "detect", "select"} =>
    LET cs == SetOf(found)
        sel == SetOf(matches)
    IN /\ \A a \in 1..Len(matches) : \A b \in 1..Len(matches) :
            a < b => Before(matches[a], matches[b])
       /\ sel \subseteq cs
       /\ \A c \in cs :
            c \in sel <=> ~\E m \in sel : Before(m, c) /\ SpansOverlap(m, c)
       /\ \A f \in cs :
            (\A c \in cs \ {f} : SpanLen(c) < SpanLen(f) /\ SpansOverlap(c, f))
              => matches = <<f>>

\* candidates of lengths 4, 5 and 4, the two of length 4 distinct and both
\* overlapping the one of length 5, and only that one selected
C14_Witness ==
  /\ pc = "reset" /\ Len(found) = 3
  /\ SpanLen(found[1]) = 4 /\ SpanLen(found[2]) = 5 /\ SpanLen(found[3]) = 4
  /\ found[1] # found[3]
  /\ SpansOverlap(found[1], found[2]) /\ SpansOverlap(found[3], found[2])
  /\ matches = <<found[2]>>

\* cell k of sq lies in a maximal letter run of at least mb letters that is a word
\* of ws, or is a separator next to such a run
LockedCell(sq, ws, mb, k) ==
  \E r \in LongRuns(sq, mb) :
    /\ RunText(sq, r) \in ws
    /\ \/ (r[1] <= k /\ k < r[2])
       \/ (At(sq, k) = SPACE_CHAR /\ (k = r[1] - 1 \/ k = r[2]))

\* the highlight of every cell of a frame, in the order of the cells
RECURSIVE FrameGreen(_)
FrameGreen(fr) ==
  IF fr = <<>> THEN <<>>
  ELSE [k \in 1..Len(Head(fr).text) |-> Head(fr).green] \o FrameGreen(Tail(fr))

\* C15: in every tick the generation is rendered exactly once, before it is
\* checked and before it is mutated, and the frame and the mutation that follows
\* use lock flags computed from that tick's sequence alone: a cell is locked
\* exactly when the current sequence's matches lock it, whatever was locked in
\* earlier generations.
C15_RenderOncePerTick ==
  /\ pc \in {"detect", "reset", "freeze", "render"} => renders = 0
  /\ pc \in {"check", "mutate", "sleep", "converged"} => renders = 1
  /\ pc \in {"check", "mutate", "converged"} =>
       /\ rendered = s
       /\ FrameText(frame) = s
       /\ \A k \in 0..(Len(s) - 1) :
            /\ At(frozen, k) <=> LockedCell(s, wordset, min_block, k)
            /\ At(FrameGreen(frame), k) <=> At(frozen, k)

\* the frame of a later tick, with a locked cell and an unlocked one, on a
\* sequence that differs from the initial one
C15_Witness ==
  /\ pc = "check" /\ s # s0 /\ renders = 1
  /\ \E k \in 0..(Len(s) - 1) : At(frozen, k)
  /\ \E k \in 0..(Len(s) - 1) : ~At(frozen, k)

\* C16: for every sequence the candidates that find_word_matches collects are
\* maximal letter runs and never overlap, so the overlap skip never drops one: the
\* selected matches are exactly the maximal letter runs of length >= min_block
\* whose text is in the word set, and as many matches are selected as there are
\* candidates.
C16_CandidatesAreMaximalRuns ==
  pc \in {"reset", "freeze", "render", "check"} =>
    /\ \A a \in 1..Len(found) :
         /\ IsRun(s, found[a][1], found[a][2])
         /\ \A b \in 1..Len(found) : a # b => ~SpansOverlap(found[a], found[b])
    /\ Len(matches) = Len(found)
    /\ SetOf(matches) = SetOf(found)
    /\ SetOf(matches) =
         {<<r[1], r[2], RunText(s, r)>> :
            r \in {q \in LongRuns(s, min_block) : RunText(s, q) \in wordset}}
    /\ Cardinality(SetOf(matches)) = Len(matches)

\* two word runs, both candidates and both selected, the longer one second in
\* the sequence and first in the selection
C16_Witness ==
  /\ pc = "reset" /\ Len(found) = 2 /\ Len(matches) = 2
  /\ found # matches

\* C17 as stated: for a generation that satisfies the structural invariants the
\* termination check passes exactly when every cell, letter or separator, is
\* locked by that generation's flags; so mutate_once is only entered on a
\* sequence with an unlocked cell.
C17_Original ==
  (pc \in {"converged", "mutate"} /\ Valid(s, min_block)) =>
    /\ (pc = "converged") <=> \A k \in 0..(Len(s) - 1) : At(frozen, k)
    /\ pc = "mutate" => \E k \in 0..(Len(s) - 1) : ~At(frozen, k)

\* C18: for every sequence, lock flags and shuffle order the candidate search of
\* mutate_once ends with an accepted candidate within its first two attempts: the
\* cap of 40 attempts is never reached and the chosen-is-None fallback never runs.
C18_SearchEndsInTwoAttempts ==
  /\ fallbacks = FALSE
  /\ (pc = "mutate" /\ i < Len(chars)) =>
       \A p \in Shuffles(candidates) :
         LET cands == [k \in 1..Len(candidates) |-> candidates[p[k]]]
         IN /\ choose_candidate(cands, 0, chars, i, frozen, min_block) # NoneChar
            /\ attempts_made(cands, 0, chars, i, frozen, min_block) <= 2
            /\ attempts_made(cands, 0, chars, i, frozen, min_block) <= MaxAttempts

\* a pass that went over a cell where the separator candidate is rejected, so a
\* shuffle that puts the separator first needs the second attempt
C18_Witness ==
  /\ pc = "sleep" /\ s # s0
  /\ \E k \in 0..(Len(s0) - 1) :
       ~At(frozen, k) /\ ~space_accepted(s0, k, frozen, min_block)
         /\ attempts_made(<<SPACE_CHAR>> \o LETTER_ALPHABET, 0, s0, k, frozen, min_block) = 2

====
